---- MODULE Spec2Model ----
(***************************************************************************)
(* A model of the OpenFlights loader (load_openflights.py) and of the      *)
(* query classes (easy_queries.py, medium_queries.py, hard_queries.py).    *)
(* The program's state is the Neo4j store it writes and reads: Airport     *)
(* nodes, Airline nodes and FLIGHT relationships.  Each Cypher statement   *)
(* the program sends is modelled by what the statement does to that store. *)
(***************************************************************************)
EXTENDS Integers, Sequences, FiniteSets, TLC

\* ------------------------------------------------------------------ bounds
MaxId == 2          \* airport identities the loader inputs draw from: 1..MaxId
MaxRecs == 2        \* longest parsed record list handed to a load function
MaxFlights == 3     \* most FLIGHT relationships the loader model lets the store hold
MaxBatch == 2       \* largest --batch-size tried
NumQ == 3           \* airports in the stores the queries are run on
MaxHops == 2        \* largest max_hops tried
MaxLimit == 3       \* largest sample_limit and top_n tried

\* ------------------------------------------------------------------ values
\* A missing value: pandas NaN replaced by None, a Cypher null, an absent property.
NULLS == "NULL"
NULLN == -1

AirportIds == 1..MaxId
AirlineIds == {1}
\* --batch-size is any int (type=int): negative, zero and positive ones.
BatchSizes == (-1)..MaxBatch

Min(a, b) == IF a < b THEN a ELSE b

\* ------------------------------------------------------------------ records
\* parse_airports: one dictionary per row, fourteen columns; the attribute
\* columns are drawn from four rows: all present (1), all missing (2), all
\* different (3), and one with no latitude (4).
AirportRow(id, v) ==
    CASE v = 1 -> [airport_id |-> id, name |-> "n1", city |-> "c1", country |-> "k1",
                   iata |-> "AAA", icao |-> "XAAA", latitude |-> 0, longitude |-> 0,
                   altitude |-> 1, timezone_offset |-> 1, dst |-> "E",
                   timezone |-> "tz1", type |-> "airport", source |-> "s1"]
      [] v = 2 -> [airport_id |-> id, name |-> NULLS, city |-> NULLS, country |-> NULLS,
                   iata |-> NULLS, icao |-> NULLS, latitude |-> NULLN, longitude |-> NULLN,
                   altitude |-> NULLN, timezone_offset |-> NULLN, dst |-> NULLS,
                   timezone |-> NULLS, type |-> NULLS, source |-> NULLS]
      [] v = 4 -> [airport_id |-> id, name |-> "n3", city |-> "c3", country |-> "k3",
                   iata |-> "CCC", icao |-> "XCCC", latitude |-> NULLN, longitude |-> 1,
                   altitude |-> 3, timezone_offset |-> 3, dst |-> "N",
                   timezone |-> "tz3", type |-> "airport", source |-> "s3"]
      [] OTHER -> [airport_id |-> id, name |-> "n2", city |-> "c2", country |-> "k2",
                   iata |-> "BBB", icao |-> "XBBB", latitude |-> 1, longitude |-> 2,
                   altitude |-> 2, timezone_offset |-> 2, dst |-> "U",
                   timezone |-> "tz2", type |-> "closed", source |-> "s2"]

AirportVariants == 1..3
AirportRows == {AirportRow(id, v) : id \in AirportIds, v \in AirportVariants}

\* parse_airlines: eight columns; airline_id is coerced, so it may be missing.
AirlineRow(id, v) ==
    IF v = 1
    THEN [airline_id |-> id, name |-> "al1", alias |-> "x", iata |-> "AI", icao |-> "AIC",
          callsign |-> "AIRINDIA", country |-> "k1", active |-> "Y"]
    ELSE [airline_id |-> id, name |-> NULLS, alias |-> NULLS, iata |-> NULLS, icao |-> NULLS,
          callsign |-> NULLS, country |-> NULLS, active |-> NULLS]

AirlineVariants == 1..2
AirlineRows == {AirlineRow(id, v) : id \in AirlineIds \cup {NULLN}, v \in AirlineVariants}

\* parse_routes: nine columns; rows without src_id or dst_id are filtered out.
RouteRow(s, d) ==
    [airline_code |-> "AI", airline_id |-> 1, src_code |-> "S", src_id |-> s,
     dst_code |-> "D", dst_id |-> d, codeshare |-> NULLS, stops |-> 0,
     equipment |-> "738"]

RouteRows == {RouteRow(s, d) : s \in AirportIds, d \in AirportIds}

\* The lists of at most MaxRecs records over a set of records.
ListsOf(S) == UNION {[1..n -> S] : n \in 0..MaxRecs}

\* ------------------------------------------------------------------ state
VARIABLES
    airportNodes,   \* the Airport nodes: in creation order, each with its properties (NULL: none)
    airlineNodes,   \* the Airline nodes, in creation order
    flights,        \* the FLIGHT relationships, in creation order
    caller,         \* who called the load function: "main" or "direct" (an importer)
    args_batch_size,\* main(): args.batch_size
    fn,             \* the load function running, or the last one that ran
    pc,             \* "idle" | "loop" (in the for loop) | "returned" | "raised"
    rows,           \* the record list the running load function was called with
    batch_size,     \* its batch_size argument
    i,              \* the loop variable of its for loop
    ret,            \* what the last load function returned: <<>> is None
    completed,      \* main(): the load functions that have returned in this run
    airportInput,   \* main(): the airport_ids of the parsed airports file
    appliedAirports,\* history: airport_id -> the last row a committed batch held for it
    appliedAirlines,\* history: airline_id -> the last row a committed batch held for it
    repeat,         \* a direct caller's next call: load_routes again with <<rows, batch_size>>
    mark1, mark2,   \* history: Len(flights) when the previous / the latest call began
    rerun,          \* history: the latest call repeats the load_routes call before it
    rpc,            \* count_entities: "idle" | "airports" | "airlines" | "flights" | "done"
    counted,        \* count_entities: <<airports, airlines, flights>> as read so far
    seen,           \* history: the counts of every store state since count_entities began
    qop,            \* the query method called last, with its arguments
    qres,           \* what it returned, or that it raised
    qaux            \* history: the nodes behind the rows of qres

loaderVars == <<caller, args_batch_size, fn, pc, rows, batch_size, i, ret, completed,
                airportInput, repeat>>
historyVars == <<appliedAirports, appliedAirlines, mark1, mark2, rerun>>
storeVars == <<airportNodes, airlineNodes, flights>>
readerVars == <<rpc, counted, seen>>
queryVars == <<qop, qres, qaux>>
vars == <<storeVars, loaderVars, historyVars, readerVars, queryVars>>

None == <<>>
NoRows == [x \in {} |-> x]

\* ------------------------------------------------------------------ Cypher
\* MERGE (a:Airport {airport_id: row.airport_id}): the node MERGE creates when
\* none matches carries the airport_id and no other property.
NewAirport(id) ==
    [airport_id |-> id, name |-> NULLS, city |-> NULLS, country |-> NULLS,
     iata |-> NULLS, icao |-> NULLS, latitude |-> NULLN, longitude |-> NULLN,
     altitude |-> NULLN, timezone_offset |-> NULLN, dst |-> NULLS,
     timezone |-> NULLS, type |-> NULLS, source |-> NULLS]

\* A field-wise merge: a null in the row leaves the node's property as it was.
SetAirportKeepOld(a, row) ==
    [airport_id |-> a.airport_id,
     name |-> IF row.name = NULLS THEN a.name ELSE row.name,
     city |-> IF row.city = NULLS THEN a.city ELSE row.city,
     country |-> IF row.country = NULLS THEN a.country ELSE row.country,
     iata |-> IF row.iata = NULLS THEN a.iata ELSE row.iata,
     icao |-> IF row.icao = NULLS THEN a.icao ELSE row.icao,
     latitude |-> IF row.latitude = NULLN THEN a.latitude ELSE row.latitude,
     longitude |-> IF row.longitude = NULLN THEN a.longitude ELSE row.longitude,
     altitude |-> row.altitude, timezone_offset |-> row.timezone_offset,
     dst |-> row.dst, timezone |-> row.timezone, type |-> row.type,
     source |-> row.source]

\* SET a.name = row.name, ..., a.source = row.source: thirteen assignments;
\* SET p = null removes the property.
SetAirport(a, row) ==
    [airport_id |-> a.airport_id, name |-> row.name, city |-> row.city,
     country |-> row.country, iata |-> row.iata, icao |-> row.icao,
     latitude |-> row.latitude, longitude |-> row.longitude,
     altitude |-> row.altitude, timezone_offset |-> row.timezone_offset,
     dst |-> row.dst, timezone |-> row.timezone, type |-> row.type,
     source |-> row.source]

\* CREATE in place of MERGE: a new node for every row.
MergeAirportAlwaysCreates(nodes, row) ==
    Append(nodes, SetAirport(NewAirport(row.airport_id), row))

\* MERGE binds every node with the airport_id, or creates one; SET then acts
\* on what MERGE bound.
MergeAirport(nodes, row) ==
    IF \E k \in 1..Len(nodes) : nodes[k].airport_id = row.airport_id
    THEN [k \in 1..Len(nodes) |->
            IF nodes[k].airport_id = row.airport_id
            THEN SetAirport(nodes[k], row) ELSE nodes[k]]
    ELSE Append(nodes, SetAirport(NewAirport(row.airport_id), row))

\* UNWIND $rows AS row MERGE ... SET ...: the rows of the batch, in order.
RECURSIVE RunAirports(_, _)
RunAirports(nodes, batch) ==
    IF batch = <<>> THEN nodes
    ELSE RunAirports(MergeAirport(nodes, Head(batch)), Tail(batch))

NewAirline(id) ==
    [airline_id |-> id, name |-> NULLS, alias |-> NULLS, iata |-> NULLS, icao |-> NULLS,
     callsign |-> NULLS, country |-> NULLS, active |-> NULLS]

\* SET al.name = row.name, ..., al.active = row.active: seven assignments.
SetAirline(al, row) ==
    [airline_id |-> al.airline_id, name |-> row.name, alias |-> row.alias,
     iata |-> row.iata, icao |-> row.icao, callsign |-> row.callsign,
     country |-> row.country, active |-> row.active]

MergeAirline(nodes, row) ==
    IF \E k \in 1..Len(nodes) : nodes[k].airline_id = row.airline_id
    THEN [k \in 1..Len(nodes) |->
            IF nodes[k].airline_id = row.airline_id
            THEN SetAirline(nodes[k], row) ELSE nodes[k]]
    ELSE Append(nodes, SetAirline(NewAirline(row.airline_id), row))

RECURSIVE RunAirlines(_, _)
RunAirlines(nodes, batch) ==
    IF batch = <<>> THEN nodes
    ELSE RunAirlines(MergeAirline(nodes, Head(batch)), Tail(batch))

\* MERGE on a null property value is an error: the statement fails and its
\* auto-commit transaction is rolled back, whatever rows came before.
MergeFails(batch) == \E k \in 1..Len(batch) : batch[k].airline_id = NULLN

\* The members of a finite set of integers, ascending.
RECURSIVE SeqOfSet(_)
SeqOfSet(S) ==
    IF S = {} THEN <<>>
    ELSE LET m == CHOOSE x \in S : \A y \in S : x <= y
         IN <<m>> \o SeqOfSet(S \ {m})

\* CREATE (src)-[:FLIGHT {...}]->(dst): five properties; distance comes later.
\* src and dst are the nodes bound: their places in airportNodes.
NewFlight(s, d, row) ==
    [src |-> s, dst |-> d, airline_id |-> row.airline_id,
     airline_code |-> row.airline_code, codeshare |-> row.codeshare,
     stops |-> row.stops, equipment |-> row.equipment, distance |-> NULLN]

\* MATCH (a:Airport {airport_id: id}): the nodes bound.
AirportsWithId(nodes, id) == {k \in 1..Len(nodes) : nodes[k].airport_id = id}

\* MATCH (src:Airport {airport_id: row.src_id}) MATCH (dst:Airport {...}):
\* a row with an endpoint that matches no node yields nothing to CREATE from.
Matches(nodes, row) ==
    /\ AirportsWithId(nodes, row.src_id) # {}
    /\ AirportsWithId(nodes, row.dst_id) # {}

\* One relationship per binding of (src, dst).
CreateFlights(nodes, fl, row) ==
    LET ss == SeqOfSet(AirportsWithId(nodes, row.src_id))
        ds == SeqOfSet(AirportsWithId(nodes, row.dst_id))
    IN fl \o [n \in 1..(Len(ss) * Len(ds)) |->
                NewFlight(ss[((n - 1) \div Len(ds)) + 1], ds[((n - 1) % Len(ds)) + 1], row)]

\* MERGE in place of CREATE: no second relationship equal to an existing one.
RECURSIVE RunRoutesMerging(_, _, _)
RunRoutesMerging(nodes, fl, batch) ==
    IF batch = <<>> THEN fl
    ELSE LET new == CreateFlights(nodes, <<>>, Head(batch))
         IN RunRoutesMerging(nodes,
                IF new # <<>> /\ \E k \in 1..Len(fl) : fl[k] = new[1] THEN fl ELSE fl \o new,
                Tail(batch))

\* A statement that stops at the first row with an unmatched endpoint.
RECURSIVE RunRoutesStopAtMiss(_, _, _)
RunRoutesStopAtMiss(nodes, fl, batch) ==
    IF batch = <<>> \/ ~Matches(nodes, Head(batch)) THEN fl
    ELSE RunRoutesStopAtMiss(nodes, CreateFlights(nodes, fl, Head(batch)), Tail(batch))

\* UNWIND $rows AS row MATCH ... MATCH ... CREATE ...: the rows of the batch, in order.
RECURSIVE RunRoutes(_, _, _)
RunRoutes(nodes, fl, batch) ==
    IF batch = <<>> THEN fl
    ELSE RunRoutes(nodes, CreateFlights(nodes, fl, Head(batch)), Tail(batch))

\* ------------------------------------------------------------------ loader
\* batch = rows[i:i + batch_size]
Batch == SubSeq(rows, i + 1, Min(i + batch_size, Len(rows)))

\* range(0, len(rows), batch_size) has another value for the loop variable.
InRange == batch_size > 0 /\ i < Len(rows)

\* The history of what committed batches held: the last row per identity.
LastRows(applied, batch, key) ==
    LET ids == {batch[k][key] : k \in 1..Len(batch)}
        last(id) == CHOOSE k \in 1..Len(batch) :
                        /\ batch[k][key] = id
                        /\ \A m \in (k + 1)..Len(batch) : batch[m][key] # id
    IN [id \in DOMAIN applied \cup ids |->
            IF id \in ids THEN batch[last(id)] ELSE applied[id]]

\* The property each MERGE identifies a node by.
AirportKey == "airport_id"
AirlineKey == "airline_id"

\* Entering a load function: the for loop starts at 0.
Enter(f, list, bs) ==
    /\ fn' = f /\ rows' = list /\ batch_size' = bs /\ i' = 0 /\ pc' = "loop"
    /\ UNCHANGED <<storeVars, ret, appliedAirports, appliedAirlines, readerVars, queryVars>>

\* A first call: nothing is known of a call before it.
First(plan) ==
    /\ rerun' = FALSE /\ mark1' = Len(flights) /\ mark2' = Len(flights)
    /\ repeat' = plan

\* No load function is running and no run of main() is under way.
Quiet == /\ pc \in {"idle", "returned", "raised"}
         /\ caller = "direct" /\ repeat = <<>>

\* The module's functions, called one by one by a program that imports them.
CallFrom(f, lists) ==
    /\ Quiet
    /\ \E list \in lists : \E bs \in BatchSizes : Enter(f, list, bs)
    /\ First(<<>>)
    /\ UNCHANGED <<caller, args_batch_size, completed, airportInput>>

CallAirports == CallFrom("load_airports", ListsOf(AirportRows))
CallAirlines == CallFrom("load_airlines", ListsOf(AirlineRows))

\* load_routes, called once, or by a program that goes on to call it a second
\* time with the same arguments.
CallRoutes ==
    /\ Quiet
    /\ \E list \in ListsOf(RouteRows) : \E bs \in BatchSizes : \E twice \in BOOLEAN :
          /\ Len(flights) + (IF twice THEN 2 ELSE 1) * Len(list) <= MaxFlights
          /\ Enter("load_routes", list, bs)
          /\ First(IF twice THEN <<list, bs>> ELSE <<>>)
    /\ UNCHANGED <<caller, args_batch_size, completed, airportInput>>

\* The second of two calls of load_routes with the same arguments.
CallRoutesAgain ==
    /\ pc = "returned" /\ caller = "direct" /\ repeat # <<>>
    /\ Enter("load_routes", repeat[1], repeat[2])
    /\ rerun' = TRUE /\ mark1' = mark2 /\ mark2' = Len(flights) /\ repeat' = <<>>
    /\ UNCHANGED <<caller, args_batch_size, completed, airportInput>>

\* main(): parse the three files, connect, create the constraints, then
\* load_airports(session, airports, batch_size=args.batch_size).
MainStartFrom(lists) ==
    /\ pc = "idle"
    /\ \E list \in lists : \E bs \in BatchSizes :
          /\ Enter("load_airports", list, bs)
          /\ args_batch_size' = bs
          /\ airportInput' = {list[k].airport_id : k \in 1..Len(list)}
    /\ First(<<>>)
    /\ caller' = "main" /\ completed' = {}

\* main() with load_routes moved up, ahead of load_airlines.
NextInMainRoutesFirst(f) == IF f = "load_airports" THEN "load_routes" ELSE "load_airlines"

\* The order of the three calls in main().
NextInMain(f) == IF f = "load_airports" THEN "load_airlines" ELSE "load_routes"

\* main() goes on to its next call, with the same args.batch_size.
MainNextFrom(f, lists) ==
    /\ caller = "main" /\ pc = "returned" /\ f # "load_airports"
    /\ fn # "load_routes" /\ NextInMain(fn) = f
    /\ \E list \in lists :
          /\ Len(flights) + (IF f = "load_routes" THEN Len(list) ELSE 0) <= MaxFlights
          /\ Enter(f, list, args_batch_size)
    /\ First(<<>>)
    /\ UNCHANGED <<caller, args_batch_size, completed, airportInput>>

MainStart == MainStartFrom(ListsOf(AirportRows))
MainAirlines == MainNextFrom("load_airlines", ListsOf(AirlineRows))
MainRoutes == MainNextFrom("load_routes", ListsOf(RouteRows))

\* The store's state as count_entities can see it.
Counts(a, al, f) == <<Len(a), Len(al), Len(f)>>

\* The auto-commit transaction of a statement commits: a running
\* count_entities reads the new state from here on.
Commit ==
    /\ seen' = (IF rpc \in {"airports", "airlines", "flights"}
                THEN seen \cup {Counts(airportNodes', airlineNodes', flights')}
                ELSE seen)
    /\ UNCHANGED <<rpc, counted, queryVars>>

\* One pass of a for loop: session.run(query, rows=batch).
Pass(f) ==
    /\ pc = "loop" /\ fn = f /\ InRange
    /\ i' = i + batch_size
    /\ UNCHANGED <<caller, args_batch_size, fn, pc, rows, batch_size, ret, completed,
                   airportInput, repeat, mark1, mark2, rerun>>

BatchAirports ==
    /\ Pass("load_airports")
    /\ airportNodes' = RunAirports(airportNodes, Batch)
    /\ appliedAirports' = LastRows(appliedAirports, Batch, AirportKey)
    /\ UNCHANGED <<airlineNodes, flights, appliedAirlines>>
    /\ Commit

BatchAirlines ==
    /\ Pass("load_airlines") /\ ~MergeFails(Batch)
    /\ airlineNodes' = RunAirlines(airlineNodes, Batch)
    /\ appliedAirlines' = LastRows(appliedAirlines, Batch, AirlineKey)
    /\ UNCHANGED <<airportNodes, flights, appliedAirports>>
    /\ Commit

BatchRoutes ==
    /\ Pass("load_routes")
    /\ flights' = RunRoutes(airportNodes, flights, Batch)
    /\ UNCHANGED <<airportNodes, airlineNodes, appliedAirports, appliedAirlines>>
    /\ Commit

\* An exception leaves the load function and, under main(), the program.
Raise ==
    /\ pc' = "raised" /\ rows' = <<>> /\ batch_size' = 0 /\ i' = 0
    /\ repeat' = <<>>
    /\ UNCHANGED <<storeVars, caller, args_batch_size, fn, ret, completed, airportInput,
                   historyVars, readerVars, queryVars>>

\* session.run raises on the batch whose MERGE fails; nothing of it is committed.
BatchAirlinesFails ==
    /\ pc = "loop" /\ fn = "load_airlines" /\ InRange /\ MergeFails(Batch)
    /\ Raise

\* range(0, len(rows), 0) raises ValueError before the first pass.
RangeRaises ==
    /\ pc = "loop" /\ batch_size = 0
    /\ Raise

\* The loop is over; the load functions have no return statement.
Return ==
    /\ pc = "loop" /\ batch_size # 0 /\ ~InRange
    /\ pc' = "returned" /\ ret' = None
    /\ rows' = <<>> /\ batch_size' = 0 /\ i' = 0
    /\ completed' = (IF caller = "main" THEN completed \cup {fn} ELSE completed)
    /\ UNCHANGED <<storeVars, caller, args_batch_size, fn, airportInput, repeat,
                   historyVars, readerVars, queryVars>>

InitLoader ==
    /\ caller = "direct" /\ args_batch_size = 0 /\ fn = "none" /\ pc = "idle"
    /\ rows = <<>> /\ batch_size = 0 /\ i = 0 /\ ret = None
    /\ completed = {} /\ airportInput = {}
    /\ appliedAirports = NoRows /\ appliedAirlines = NoRows
    /\ repeat = <<>> /\ mark1 = 0 /\ mark2 = 0 /\ rerun = FALSE
    /\ rpc = "idle" /\ counted = <<>> /\ seen = {}
    /\ qop = [op |-> "none"] /\ qres = [status |-> "none"] /\ qaux = <<>>

\* A run of main() against a fresh database.
Init ==
    /\ airportNodes = <<>> /\ airlineNodes = <<>> /\ flights = <<>>
    /\ InitLoader

Next ==
    \/ MainStart \/ MainAirlines \/ MainRoutes
    \/ BatchAirports \/ BatchAirlines \/ BatchAirlinesFails \/ BatchRoutes
    \/ RangeRaises \/ Return

Spec == Init /\ [][Next]_vars

\* The upserts, called in any order with any lists.
NextUpsert ==
    \/ CallAirports \/ CallAirlines
    \/ BatchAirports \/ BatchAirlines \/ BatchAirlinesFails
    \/ RangeRaises \/ Return

SpecUpsert == Init /\ [][NextUpsert]_vars

\* load_routes called again and again on a store that holds some airports.
InitRoutes ==
    /\ \E ids \in SUBSET AirportIds :
          airportNodes = RunAirports(<<>>, [k \in 1..Cardinality(ids) |->
                                              AirportRow(SeqOfSet(ids)[k], 1)])
    /\ airlineNodes = <<>> /\ flights = <<>>
    /\ InitLoader

NextRoutes == CallRoutes \/ CallRoutesAgain \/ BatchRoutes \/ RangeRaises \/ Return

SpecRoutes == InitRoutes /\ [][NextRoutes]_vars

\* ------------------------------------------------------------------ count_entities
\* EasyQueries.count_entities: three statements in one session, each in an
\* auto-commit transaction of its own, while the loader runs in its process.
CountStart ==
    /\ rpc = "idle"
    /\ rpc' = "airports" /\ counted' = <<>>
    /\ seen' = {Counts(airportNodes, airlineNodes, flights)}
    /\ UNCHANGED <<storeVars, loaderVars, historyVars, queryVars>>

\* airports = session.run("MATCH (a:Airport) RETURN count(a)").single()[0]
CountAirports ==
    /\ rpc = "airports"
    /\ rpc' = "airlines" /\ counted' = <<Len(airportNodes)>>
    /\ UNCHANGED <<storeVars, loaderVars, historyVars, seen, queryVars>>

\* airlines = session.run("MATCH (al:Airline) RETURN count(al)").single()[0]
CountAirlines ==
    /\ rpc = "airlines"
    /\ rpc' = "flights" /\ counted' = Append(counted, Len(airlineNodes))
    /\ UNCHANGED <<storeVars, loaderVars, historyVars, seen, queryVars>>

\* flights = session.run("MATCH ()-[f:FLIGHT]->() RETURN count(f)").single()[0]
\* return airports, airlines, flights
CountFlights ==
    /\ rpc = "flights"
    /\ rpc' = "done" /\ counted' = Append(counted, Len(flights))
    /\ UNCHANGED <<storeVars, loaderVars, historyVars, seen, queryVars>>

\* The loader's run of main() on files of a few records, with count_entities
\* called once in another process.
ConcAirports == ListsOf({AirportRow(id, 1) : id \in AirportIds})
ConcAirlines == ListsOf({AirlineRow(id, 1) : id \in AirlineIds \cup {NULLN}})

ConcMainStart == MainStartFrom(ConcAirports)
ConcMainAirlines == MainNextFrom("load_airlines", ConcAirlines)

NextConc ==
    \/ ConcMainStart \/ ConcMainAirlines \/ MainRoutes
    \/ BatchAirports \/ BatchAirlines \/ BatchAirlinesFails \/ BatchRoutes
    \/ RangeRaises \/ Return
    \/ CountStart \/ CountAirports \/ CountAirlines \/ CountFlights

SpecConc == Init /\ [][NextConc]_vars

\* ------------------------------------------------------------------ query stores
\* The stores the query methods are run on: what the loader leaves after
\* load_airports of NumQ airports and load_routes of a list of routes between
\* them: for every two airports no route, a route one way, the other way or
\* both ways, and possibly one route of the list a second time.
QueryIds == 1..NumQ
QueryPairs == {pr \in QueryIds \X QueryIds : pr[1] < pr[2]}

RoutesOfChoice(c) ==
    LET code(s, d) == s * (NumQ + 1) + d
        codes == {code(pr[1], pr[2]) : pr \in {x \in QueryPairs : c[x] \in {1, 3}}}
                   \cup {code(pr[2], pr[1]) : pr \in {x \in QueryPairs : c[x] \in {2, 3}}}
        sorted == SeqOfSet(codes)
    IN [k \in 1..Len(sorted) |-> RouteRow(sorted[k] \div (NumQ + 1), sorted[k] % (NumQ + 1))]

WithRepeat(list, dup) ==
    IF dup = 0 THEN list ELSE list \o <<list[dup]>>

InitStore(variants, repeats) ==
    /\ \E vs \in [QueryIds -> variants] : \E c \in [QueryPairs -> 0..3] :
          \E dup \in 0..(IF repeats THEN Len(RoutesOfChoice(c)) ELSE 0) :
             /\ airportNodes = RunAirports(<<>>, [k \in QueryIds |-> AirportRow(k, vs[k])])
             /\ flights = RunRoutes(RunAirports(<<>>, [k \in QueryIds |-> AirportRow(k, vs[k])]),
                                    <<>>, WithRepeat(RoutesOfChoice(c), dup))
    /\ airlineNodes = <<>>
    /\ InitLoader

\* A query method returns: the store and the loader are as they were.
Answer(op, res, aux) ==
    /\ qop' = op /\ qres' = res /\ qaux' = aux
    /\ UNCHANGED <<airportNodes, airlineNodes, loaderVars, historyVars, readerVars>>

NoneResult == [status |-> "none"]
ErrorResult == [status |-> "error"]

\* MATCH (a:Airport {iata: $code}): the nodes bound; a null matches nothing.
AirportsWithIata(code) ==
    {k \in 1..Len(airportNodes) : code # NULLS /\ airportNodes[k].iata = code}

\* The codes the query methods are called with: those of the rows; a store
\* need not have an airport for each.
QueryCodes == {"AAA", "BBB", "CCC"}

\* ------------------------------------------------------------------ shortest_path
\* (start)-[:FLIGHT*..H]->(end): the sequences of 1 to H relationships, each
\* starting where the one before ends, none used twice.
PathsUpTo(s, t, H) ==
    {p \in UNION {[1..n -> 1..Len(flights)] : n \in 1..H} :
        /\ flights[p[1]].src = s /\ flights[p[Len(p)]].dst = t
        /\ \A k \in 1..(Len(p) - 1) : flights[p[k]].dst = flights[p[k + 1]].src
        /\ \A k, m \in 1..Len(p) : k # m => p[k] # p[m]}

\* shortestPath(...): the paths of the pattern with the fewest relationships.
ShortestPaths(s, t, H) ==
    {p \in PathsUpTo(s, t, H) : \A r \in PathsUpTo(s, t, H) : Len(p) <= Len(r)}

\* nodes(p)
NodesOf(p) == <<flights[p[1]].src>> \o [k \in 1..Len(p) |-> flights[p[k]].dst]

\* RETURN [n IN nodes(p) | n.iata] AS route,
\*        [r IN relationships(p) | r.airline_code] AS carriers, length(p) AS hops
PathRow(p) ==
    [status |-> "ok",
     route |-> [k \in 1..(Len(p) + 1) |-> airportNodes[NodesOf(p)[k]].iata],
     carriers |-> [k \in 1..Len(p) |-> flights[p[k]].airline_code],
     hops |-> Len(p)]

\* The bindings of (start, end) the first MATCH yields.
Bindings(from, to) == AirportsWithIata(from) \X AirportsWithIata(to)

\* What shortest_path can return, each outcome with the nodes of its path.
\* A binding with start = end makes the statement fail; with the server's
\* forbid_shortestpath_common_nodes switched off it yields no row instead.
\* single() hands back the first row when there are several, None when none.
ShortestPathOutcomes(from, to, H) ==
    LET found == {<<PathRow(p), NodesOf(p)>> :
                     p \in UNION {ShortestPaths(b[1], b[2], H) :
                                     b \in {x \in Bindings(from, to) : x[1] # x[2]}}}
    IN (IF \E b \in Bindings(from, to) : b[1] = b[2]
        THEN {<<ErrorResult, <<>>>>} ELSE {})
         \cup (IF found = {} THEN {<<NoneResult, <<>>>>} ELSE found)

\* HardQueries.shortest_path(from_iata, to_iata, max_hops)
ShortestPath ==
    /\ \E from \in QueryCodes : \E to \in QueryCodes : \E H \in 1..MaxHops :
          \E out \in ShortestPathOutcomes(from, to, H) :
             Answer([op |-> "shortest_path", from |-> from, to |-> to, max_hops |-> H],
                    out[1], out[2])
    /\ UNCHANGED flights

\* ------------------------------------------------------------------ distances
Abs(x) == IF x < 0 THEN 0 - x ELSE x

\* point({latitude: ..., longitude: ...}) is null when a coordinate is null,
\* point.distance of a null is null, and so is null / 1000.0.  The model's
\* coordinates are whole degrees on a small grid, and the distance between two
\* points is taken along the grid: it is 0 between equal points, positive
\* otherwise, as the great-circle distance is.
DistanceKm(a1, a2) ==
    IF NULLN \in {a1.latitude, a1.longitude, a2.latitude, a2.longitude}
    THEN NULLN
    ELSE Abs(a1.latitude - a2.latitude) + Abs(a1.longitude - a2.longitude)

\* MATCH (a1:Airport)-[f:FLIGHT]->(a2:Airport) SET f.distance = ...:
\* SET to null leaves the relationship without the property.
SetDistances(fl) ==
    [k \in 1..Len(fl) |->
        [fl[k] EXCEPT !.distance = DistanceKm(airportNodes[fl[k].src], airportNodes[fl[k].dst])]]

\* HardQueries.add_distance_property(): RETURN count(f) AS updated counts the
\* relationships matched.
AddDistanceProperty ==
    /\ flights' = SetDistances(flights)
    /\ Answer([op |-> "add_distance_property"], [status |-> "ok", updated |-> Len(flights)],
              <<>>)

\* ------------------------------------------------------------------ weighted_shortest_path
\* The weight of a relationship that has no distance, in the projected graph:
\* the default value of a projected property, NaN.
NaN == -2

\* The property key exists in the database once a distance has been stored.
DistanceKeyExists == \E k \in 1..Len(flights) : flights[k].distance # NULLN

\* relationshipProjection {FLIGHT: {type: 'FLIGHT', properties: 'distance'}}:
\* every FLIGHT relationship, in its direction, with its distance or the default.
Weight(k) == IF flights[k].distance = NULLN THEN NaN ELSE flights[k].distance

\* Arithmetic and comparison on doubles of which some are NaN.
Plus(a, b) == IF a = NaN \/ b = NaN THEN NaN ELSE a + b
Less(a, b) == a # NaN /\ b # NaN /\ a < b

\* The relationships leaving node u, in store order.
OutOf(u) == SeqOfSet({k \in 1..Len(flights) : flights[k].src = u})

\* Dijkstra's relaxation of the relationships es out of u, whose cost is cu:
\* a node seen for the first time is queued with the new cost, a queued node
\* is updated when the new cost is less, a visited node is left alone.
RECURSIVE Relax(_, _, _, _)
Relax(u, cu, es, st) ==
    IF es = <<>> THEN st
    ELSE LET v == flights[Head(es)].dst
             c == Plus(cu, Weight(Head(es)))
         IN Relax(u, cu, Tail(es),
                  IF v \in st.visited THEN st
                  ELSE IF v \notin st.queue
                       THEN [st EXCEPT !.queue = @ \cup {v}, !.cost[v] = c, !.pred[v] = u]
                  ELSE IF Less(c, st.cost[v])
                       THEN [st EXCEPT !.cost[v] = c, !.pred[v] = u]
                  ELSE st)

\* The nodes from the source to u along the predecessors.
RECURSIVE PathTo(_, _, _)
PathTo(pred, s, u) == IF u = s THEN <<s>> ELSE Append(PathTo(pred, s, pred[u]), u)

\* The runs of Dijkstra from s to t: the queue hands out a node that no other
\* queued node is less than (a NaN is less than nothing, and nothing less
\* than it); the run ends when t is handed out, or the queue is empty.
RECURSIVE Dijkstra(_, _, _)
Dijkstra(s, t, st) ==
    IF st.queue = {} THEN {[found |-> FALSE]}
    ELSE UNION {
           IF u = t
           THEN {[found |-> TRUE, totalCost |-> st.cost[u], nodeIds |-> PathTo(st.pred, s, u)]}
           ELSE Dijkstra(s, t, Relax(u, st.cost[u], OutOf(u),
                                     [st EXCEPT !.queue = @ \ {u}, !.visited = @ \cup {u}]))
           : u \in {x \in st.queue : \A y \in st.queue : ~Less(st.cost[y], st.cost[x])}}

DijkstraStart(s) ==
    [queue |-> {s}, visited |-> {}, cost |-> [v \in 1..Len(airportNodes) |-> 0],
     pred |-> [v \in 1..Len(airportNodes) |-> s]]

\* RETURN totalCost, [nodeId IN nodeIds | gds.util.asNode(nodeId).iata] AS route
WeightedRow(r) ==
    [status |-> "ok", distance_km |-> r.totalCost,
     route |-> [k \in 1..Len(r.nodeIds) |-> airportNodes[r.nodeIds[k]].iata]]

\* What weighted_shortest_path can return.  The procedure is called once per
\* binding of (start, end); its projection fails when the database has no
\* property key 'distance'.
WeightedOutcomes(from, to) ==
    LET found == {<<WeightedRow(r), r.nodeIds>> :
                     r \in {x \in UNION {Dijkstra(b[1], b[2], DijkstraStart(b[1])) :
                                            b \in Bindings(from, to)} : x.found}}
    IN IF Bindings(from, to) = {} THEN {<<NoneResult, <<>>>>}
       ELSE IF ~DistanceKeyExists THEN {<<ErrorResult, <<>>>>}
       ELSE IF found = {} THEN {<<NoneResult, <<>>>>}
       ELSE found

\* HardQueries.weighted_shortest_path(from_iata, to_iata)
WeightedShortestPath ==
    /\ \E from \in QueryCodes : \E to \in QueryCodes :
          \E out \in WeightedOutcomes(from, to) :
             Answer([op |-> "weighted_shortest_path", from |-> from, to |-> to],
                    out[1], out[2])
    /\ UNCHANGED flights

\* The path queries, on a store whose airports have an iata and, but for
\* those of the row with no latitude, coordinates.
InitPaths == InitStore({1, 3, 4}, FALSE)

NextPaths == ShortestPath \/ AddDistanceProperty \/ WeightedShortestPath

SpecPaths == InitPaths /\ [][NextPaths]_vars


\* ------------------------------------------------------------------ graph projections
\* relationshipProjection: 'FLIGHT' projects the relationships as stored
\* (orientation NATURAL); { type: 'FLIGHT', orientation: 'UNDIRECTED' } projects
\* each one in both directions.
Orientation(projection) ==
    IF "orientation" \in DOMAIN projection THEN projection.orientation ELSE "NATURAL"

\* The adjacency of the projected graph: parallel relationships are one pair.
Projected(projection) ==
    {<<flights[k].src, flights[k].dst>> : k \in 1..Len(flights)}
      \cup (IF Orientation(projection) = "UNDIRECTED"
            THEN {<<flights[k].dst, flights[k].src>> : k \in 1..Len(flights)} ELSE {})

\* The nodes reachable from those of S along adj without leaving nodes.
RECURSIVE Closure(_, _, _)
Closure(S, nodes, adj) ==
    LET more == S \cup {e[2] : e \in {x \in adj : x[1] \in S /\ x[2] \in nodes}}
    IN IF more = S THEN S ELSE Closure(more, nodes, adj)

ComponentsOf(nodes, adj) == {Closure({n}, nodes, adj) : n \in nodes}

\* A node is an articulation point when the graph without it has more
\* connected components.
ArticulationPointsOf(nodes, adj) ==
    {n \in nodes : Cardinality(ComponentsOf(nodes \ {n}, adj)) > Cardinality(ComponentsOf(nodes, adj))}

\* RETURN gds.util.asNode(...).iata AS iata, .city AS city, .country AS country
PointRow(n) ==
    [iata |-> airportNodes[n].iata, city |-> airportNodes[n].city,
     country |-> airportNodes[n].country]

\* gds.articulationPoints.stream: the algorithm is defined on undirected
\* graphs and refuses a projection of another orientation.
ArticulationPointsStream(projection) ==
    IF Orientation(projection) # "UNDIRECTED"
    THEN ErrorResult
    ELSE LET points == SeqOfSet(ArticulationPointsOf(1..Len(airportNodes), Projected(projection)))
         IN [status |-> "ok", rows |-> [k \in 1..Len(points) |-> PointRow(points[k])]]

\* HardQueries.find_articulation_points()
FindArticulationPoints ==
    /\ Answer([op |-> "find_articulation_points"],
              ArticulationPointsStream([type |-> "FLIGHT"]), <<>>)
    /\ UNCHANGED flights

\* A stream that has rows only for the nodes with a relationship.
LouvainStreamsLinkedOnly(projection) ==
    LET nodes == 1..Len(airportNodes)
        linked(r) == \E e \in Projected(projection) : e[1] = r.nodeId
        component == [n \in nodes |-> Closure({n}, nodes, Projected(projection))]
    IN {SelectSeq([k \in nodes |-> [nodeId |-> k, communityId |-> f[k]]], linked) :
           f \in {g \in [nodes -> nodes] : \A n \in nodes : g[n] \in component[n]}}

\* gds.louvain.stream ... YIELD nodeId, communityId: one row per projected
\* node, in node order, the community named by a node.  Which partition the
\* optimisation settles on is left open; a community never spans two
\* components of the projected graph.
LouvainStreams(projection) ==
    LET nodes == 1..Len(airportNodes)
        component == [n \in nodes |-> Closure({n}, nodes, Projected(projection))]
    IN {[k \in nodes |-> [nodeId |-> k, communityId |-> f[k]]] :
           f \in {g \in [nodes -> nodes] : \A n \in nodes : g[n] \in component[n]}}

\* RETURN gds.util.asNode(nodeId).iata AS iata, .city AS city, communityId
CommunityRow(r) ==
    [iata |-> airportNodes[r.nodeId].iata, city |-> airportNodes[r.nodeId].city,
     communityId |-> r.communityId]

\* LIMIT $limit: the first rows; a negative limit is an error.
Limit(stream, limit) == SubSeq(stream, 1, Min(limit, Len(stream)))

\* HardQueries.detect_communities_louvain(sample_limit)
DetectCommunitiesLouvain ==
    /\ \E limit \in (-1)..MaxLimit :
          \E st \in LouvainStreams([type |-> "FLIGHT", orientation |-> "UNDIRECTED"]) :
             IF limit < 0
             THEN Answer([op |-> "detect_communities_louvain", sample_limit |-> limit],
                         ErrorResult, <<>>)
             ELSE Answer([op |-> "detect_communities_louvain", sample_limit |-> limit],
                         [status |-> "ok",
                          rows |-> Limit([k \in 1..Len(st) |-> CommunityRow(st[k])], limit)],
                         st)
    /\ UNCHANGED flights

InitStruct == InitStore({1, 3}, FALSE)

NextStruct == FindArticulationPoints \/ DetectCommunitiesLouvain

SpecStruct == InitStruct /\ [][NextStruct]_vars


\* ------------------------------------------------------------------ hubs_above_average
\* MATCH (a:Airport)-[:FLIGHT]->(dst:Airport) WITH a, count(DISTINCT dst):
\* one group per airport with a relationship going out, its distinct ends.
DistinctDests(fl, a) == Cardinality({fl[k].dst : k \in {e \in 1..Len(fl) : fl[e].src = a}})

Origins(fl) == {fl[k].src : k \in 1..Len(fl)}

RECURSIVE SumDests(_, _)
SumDests(fl, S) ==
    IF S = {} THEN 0
    ELSE LET a == CHOOSE x \in S : TRUE IN DistinctDests(fl, a) + SumDests(fl, S \ {a})

\* WITH avg(dests) AS avgDests ... WHERE hubDests > avgDests: the average is
\* the sum over the groups divided by their number.
AboveAverage(fl) ==
    {a \in Origins(fl) :
        DistinctDests(fl, a) * Cardinality(Origins(fl)) > SumDests(fl, Origins(fl))}

\* ORDER BY hubDests DESC: any order of the rows with hubDests not increasing;
\* rows with equal hubDests come in an order the statement does not fix.
OrderedByDests(fl, S) ==
    {sq \in [1..Cardinality(S) -> S] :
        /\ \A k, m \in 1..Cardinality(S) : k # m => sq[k] # sq[m]
        /\ \A k, m \in 1..Cardinality(S) :
              k < m => DistinctDests(fl, sq[k]) >= DistinctDests(fl, sq[m])}

\* RETURN a.iata AS iata, a.city AS city, a.country AS country, hubDests
HubRow(a) ==
    [iata |-> airportNodes[a].iata, city |-> airportNodes[a].city,
     country |-> airportNodes[a].country, hubDests |-> DistinctDests(flights, a)]

\* MediumQueries.hubs_above_average(top_n)
HubsAboveAverage ==
    /\ \E n \in (-1)..MaxLimit :
          \E sq \in OrderedByDests(flights, AboveAverage(flights)) :
             IF n < 0
             THEN Answer([op |-> "hubs_above_average", top_n |-> n], ErrorResult, <<>>)
             ELSE Answer([op |-> "hubs_above_average", top_n |-> n],
                         [status |-> "ok",
                          rows |-> Limit([k \in 1..Len(sq) |-> HubRow(sq[k])], n)],
                         Limit(sq, n))
    /\ UNCHANGED flights

InitAgg == InitStore({1, 3}, TRUE)

NextAgg == HubsAboveAverage

SpecAgg == InitAgg /\ [][NextAgg]_vars


\* ------------------------------------------------------------------ two_hop_destinations
\* MATCH (src:Airport {iata:$code})-[:FLIGHT]->()-[:FLIGHT]->(two:Airport)
\* WHERE src <> two: the nodes two bound by some row, the two relationships of
\* a row being different ones.
TwoHopNodes(code) ==
    {flights[f2].dst : f2 \in
        {g \in 1..Len(flights) :
            \E f1 \in 1..Len(flights) :
               /\ f1 # g
               /\ flights[f1].src \in AirportsWithIata(code)
               /\ flights[f1].dst = flights[g].src
               /\ flights[f1].src # flights[g].dst}}

\* RETURN two.iata AS iata, two.city AS city, two.country AS country
TwoHopRow(n) ==
    [iata |-> airportNodes[n].iata, city |-> airportNodes[n].city,
     country |-> airportNodes[n].country]

\* RETURN DISTINCT: rows equal in the three values returned are one row; the
\* row is kept with a node it comes from.
TwoHopRows(code) ==
    SeqOfSet({n \in TwoHopNodes(code) :
                 \A m \in TwoHopNodes(code) : TwoHopRow(m) = TwoHopRow(n) => n <= m})

\* The place of a string of the records in the order of ORDER BY: a null is last.
Collate(str) ==
    CASE str \in {"c1", "k1"} -> 1
      [] str \in {"c2", "k2"} -> 2
      [] str \in {"c3", "k3"} -> 3
      [] OTHER -> 4

\* ORDER BY two.country, two.city: the orders of the rows in which neither
\* key decreases.
OrderedByPlace(nodes) ==
    {sq \in [1..Len(nodes) -> {nodes[k] : k \in 1..Len(nodes)}] :
        /\ \A k, m \in 1..Len(nodes) : k # m => sq[k] # sq[m]
        /\ \A k, m \in 1..Len(nodes) : k < m =>
              \/ Collate(airportNodes[sq[k]].country) < Collate(airportNodes[sq[m]].country)
              \/ /\ airportNodes[sq[k]].country = airportNodes[sq[m]].country
                 /\ Collate(airportNodes[sq[k]].city) <= Collate(airportNodes[sq[m]].city)}

\* MediumQueries.two_hop_destinations(from_iata)
TwoHopDestinations ==
    /\ \E code \in QueryCodes : \E sq \in OrderedByPlace(TwoHopRows(code)) :
          Answer([op |-> "two_hop_destinations", from |-> code],
                 [status |-> "ok", rows |-> [k \in 1..Len(sq) |-> TwoHopRow(sq[k])]],
                 sq)
    /\ UNCHANGED flights

InitHops == InitStore({1, 3}, TRUE)

NextHops == TwoHopDestinations

SpecHops == InitHops /\ [][NextHops]_vars

\* ------------------------------------------------------------------ claims
AirlinesWithId(nodes, id) == {k \in 1..Len(nodes) : nodes[k].airline_id = id}

\* C1: after any sequence of load_airports and load_airlines calls, every
\* identity a committed batch held has exactly one node, the node carries all
\* the attributes of the last row applied for the identity and nothing of an
\* earlier one, and there are as many nodes as identities.
C1_LastWriterWins ==
    /\ \A id \in DOMAIN appliedAirports :
          /\ Cardinality(AirportsWithId(airportNodes, id)) = 1
          /\ \A k \in AirportsWithId(airportNodes, id) : airportNodes[k] = appliedAirports[id]
    /\ Len(airportNodes) = Cardinality(DOMAIN appliedAirports)
    /\ \A id \in DOMAIN appliedAirlines :
          /\ Cardinality(AirlinesWithId(airlineNodes, id)) = 1
          /\ \A k \in AirlinesWithId(airlineNodes, id) : airlineNodes[k] = appliedAirlines[id]
    /\ Len(airlineNodes) = Cardinality(DOMAIN appliedAirlines)

\* An earlier row of this call, with an iata, has been overwritten by a later
\* row for the same airport that has none.
C1_Witness ==
    /\ fn = "load_airports" /\ pc = "loop"
    /\ \E k \in 1..Min(i, Len(rows)) : \E n \in 1..Len(airportNodes) :
          /\ airportNodes[n].airport_id = rows[k].airport_id
          /\ rows[k].iata # NULLS /\ airportNodes[n].iata = NULLS

IsPrefix(s, t) == Len(s) <= Len(t) /\ SubSeq(t, 1, Len(s)) = s

\* The relationships from node s to node d among fl[from..to].
CountPair(fl, from, to, s, d) ==
    Cardinality({k \in from..to : fl[k].src = s /\ fl[k].dst = d})

\* C2: no step merges with, overwrites or removes a FLIGHT relationship, and
\* when load_routes has run twice with the same arguments, every ordered pair
\* of airports has twice the relationships the first run created.
C2_AppendOnly ==
    [][/\ IsPrefix(flights, flights')
       /\ (pc' = "returned" /\ rerun') =>
             \A s, d \in 1..Len(airportNodes) :
                CountPair(flights', mark1' + 1, Len(flights'), s, d)
                  = 2 * CountPair(flights', mark1' + 1, mark2', s, d)]_vars

\* The second run has returned and the two runs created relationships.
C2_Witness ==
    /\ pc = "returned" /\ rerun /\ mark2 > mark1 /\ Len(flights) > mark2

\* The rows of a list whose two endpoints match an airport, as relationships.
RECURSIVE Inserted(_, _)
Inserted(nodes, list) ==
    IF list = <<>> THEN <<>>
    ELSE (IF Matches(nodes, Head(list))
          THEN <<NewFlight(CHOOSE k \in AirportsWithId(nodes, Head(list).src_id) : TRUE,
                           CHOOSE k \in AirportsWithId(nodes, Head(list).dst_id) : TRUE,
                           Head(list))>>
          ELSE <<>>) \o Inserted(nodes, Tail(list))

Skipped(nodes, list) == Cardinality({k \in 1..Len(list) : ~Matches(nodes, list[k])})

\* load_routes leaves its loop.
RoutesReturn == fn = "load_routes" /\ pc = "loop" /\ pc' = "returned"

C4_NodesBeforeFlights ==
    (caller = "main" /\ fn = "load_routes" /\ pc \in {"loop", "returned"}) =>
        /\ {"load_airports", "load_airlines"} \subseteq completed
        /\ args_batch_size > 0 =>
              \A id \in airportInput : AirportsWithId(airportNodes, id) # {}
        /\ \A k \in 1..Min(i, Len(rows)) :
              {rows[k].src_id, rows[k].dst_id} \subseteq airportInput
                 => Matches(airportNodes, rows[k])
        /\ pc = "loop" =>
              SubSeq(flights, mark2 + 1, Len(flights))
                 = Inserted(airportNodes, SubSeq(rows, 1, Min(i, Len(rows))))

\* main() has sent a batch of routes, and a relationship was created.
C4_Witness ==
    /\ caller = "main" /\ fn = "load_routes" /\ pc = "loop" /\ i > 0
    /\ Len(flights) > 0 /\ Cardinality(airportInput) = MaxId

\* C5: what count_entities returns is the three counts of one store state
\* that existed while it ran: the state it began in or one a commit left.
C5_OneState == rpc = "done" => counted \in seen

\* The nodes one FLIGHT relationship away from a node of S, along the
\* relationships E (places in flights).
Successors(S, E) == {flights[k].dst : k \in {e \in E : flights[e].src \in S}}

\* The nodes at the end of a walk of exactly k relationships from s.
RECURSIVE Level(_, _)
Level(s, k) == IF k = 0 THEN {s} ELSE Successors(Level(s, k - 1), 1..Len(flights))

\* The hop counts, at most H, of the walks from s to t; the least is a path's.
HopCounts(s, t, H) == {k \in 0..H : t \in Level(s, k)}

Least(S) == CHOOSE x \in S : \A y \in S : x <= y

\* qaux is a directed path of FLIGHT relationships from s to t.
IsRoute(nodes, s, t) ==
    /\ nodes # <<>> /\ nodes[1] = s /\ nodes[Len(nodes)] = t
    /\ \A k \in 1..(Len(nodes) - 1) :
          \E e \in 1..Len(flights) : flights[e].src = nodes[k] /\ flights[e].dst = nodes[k + 1]

\* C6: for a source and a target (the one airport with the iata given, each)
\* and a hop bound H, shortest_path returns a directed path from source to
\* target with the least hop count among those of at most H hops, returns
\* None exactly when there is none, and a larger H never gives more hops.
C6_FewestHops ==
    qop.op = "shortest_path" =>
       \A s \in AirportsWithIata(qop.from) : \A t \in AirportsWithIata(qop.to) :
          (Cardinality(AirportsWithIata(qop.from)) = 1
             /\ Cardinality(AirportsWithIata(qop.to)) = 1) =>
             /\ IF HopCounts(s, t, qop.max_hops) = {}
                THEN qres.status = "none"
                ELSE /\ qres.status = "ok"
                     /\ qres.hops = Least(HopCounts(s, t, qop.max_hops))
                     /\ Len(qaux) = qres.hops + 1
                     /\ IsRoute(qaux, s, t)
             /\ \A H \in 1..qop.max_hops :
                   \A o \in ShortestPathOutcomes(qop.from, qop.to, H) :
                      (o[1].status = "ok" /\ qres.status = "ok") => qres.hops <= o[1].hops

\* The nodes reachable from those of S along relationships that have a distance.
RECURSIVE WeightedReach(_)
WeightedReach(S) ==
    LET more == S \cup Successors(S, {e \in 1..Len(flights) : flights[e].distance # NULLN})
    IN IF more = S THEN S ELSE WeightedReach(more)

\* C7: a route weighted_shortest_path returns traverses no relationship that
\* lacks a distance, and when the target cannot be reached along relationships
\* that have one, nothing is returned: None (or, no distance having been
\* computed at all, an error), never a path.
C7_OnlyWeightedEdges ==
    qop.op = "weighted_shortest_path" =>
       /\ qres.status = "ok" =>
             \A k \in 1..(Len(qaux) - 1) :
                \E e \in 1..Len(flights) :
                   /\ flights[e].src = qaux[k] /\ flights[e].dst = qaux[k + 1]
                   /\ flights[e].distance # NULLN
       /\ (\A b \in Bindings(qop.from, qop.to) : b[2] \notin WeightedReach({b[1]}))
             => qres.status \in {"none", "error"}

\* C8: find_articulation_points returns exactly the airports whose removal
\* leaves the undirected projection (adjacent when a FLIGHT goes either way)
\* with more connected components, and so never an isolated airport.
C8_ExactArticulationPoints ==
    qop.op = "find_articulation_points" =>
       /\ qres.status = "ok"
       /\ LET both == [type |-> "FLIGHT", orientation |-> "UNDIRECTED"]
              points == ArticulationPointsOf(1..Len(airportNodes), Projected(both))
          IN /\ {qres.rows[k] : k \in 1..Len(qres.rows)} = {PointRow(n) : n \in points}
             /\ Len(qres.rows) = Cardinality(points)
             /\ \A n \in points : \E e \in Projected(both) : e[1] = n

\* C9: every airport has exactly one row, so one community label, in the
\* stream of a detect_communities_louvain call, and the rows returned are the
\* first sample_limit of that stream (all of them when there are fewer), each
\* with the label its airport has in the stream.
C9_OneLabelCapTruncates ==
    (qop.op = "detect_communities_louvain" /\ qres.status = "ok") =>
       /\ \A n \in 1..Len(airportNodes) :
             Cardinality({k \in 1..Len(qaux) : qaux[k].nodeId = n}) = 1
       /\ Len(qres.rows) = Min(qop.sample_limit, Len(airportNodes))
       /\ \A k \in 1..Len(qres.rows) :
             /\ qres.rows[k].communityId = qaux[k].communityId
             /\ qres.rows[k].iata = airportNodes[qaux[k].nodeId].iata
             /\ qres.rows[k].city = airportNodes[qaux[k].nodeId].city

\* A capped call on a store with an airport without flights, two communities
\* among the rows returned.
C9_Witness ==
    /\ qop.op = "detect_communities_louvain" /\ qres.status = "ok"
    /\ qop.sample_limit = 2 /\ Len(qres.rows) = 2 /\ Len(airportNodes) > 2
    /\ qres.rows[1].communityId # qres.rows[2].communityId
    /\ \E n \in 1..Len(airportNodes) : \A k \in 1..Len(flights) : n \notin {flights[k].src, flights[k].dst}

\* Eleven airports with 1, 1, 1 and 10 distinct destinations: airports 1, 2
\* and 3 each fly to one airport, airport 4 to the ten others.
DegreesExample ==
    <<[src |-> 1, dst |-> 2], [src |-> 2, dst |-> 1], [src |-> 3, dst |-> 1]>>
      \o [k \in 1..3 |-> [src |-> 4, dst |-> k]] \o [k \in 1..7 |-> [src |-> 4, dst |-> k + 4]]

\* The airports above the mean of the distinct destinations per airport that
\* has a flight out, and the order of the claim: more destinations first,
\* among equals the smaller airport_id first.
Hubs ==
    LET dests(a) == Cardinality({d \in 1..Len(airportNodes) :
                                    \E k \in 1..Len(flights) : flights[k].src = a /\ flights[k].dst = d})
        origins == {a \in 1..Len(airportNodes) : dests(a) > 0}
    IN {a \in origins : dests(a) * Cardinality(origins) > SumDests(flights, origins)}

Before(a, b) ==
    \/ DistinctDests(flights, a) > DistinctDests(flights, b)
    \/ /\ DistinctDests(flights, a) = DistinctDests(flights, b)
       /\ airportNodes[a].airport_id < airportNodes[b].airport_id

\* Without the order among equals: more destinations first.
HubsTopN ==
    /\ Len(qaux) = Min(qop.top_n, Cardinality(Hubs))
    /\ \A k \in 1..Len(qaux) : qaux[k] \in Hubs /\ qres.rows[k] = HubRow(qaux[k])
    /\ \A k, m \in 1..Len(qaux) : k # m => qaux[k] # qaux[m]
    /\ \A k, m \in 1..Len(qaux) :
          k < m => DistinctDests(flights, qaux[k]) >= DistinctDests(flights, qaux[m])
    /\ \A a \in Hubs : (\A k \in 1..Len(qaux) : qaux[k] # a) =>
          \A k \in 1..Len(qaux) : DistinctDests(flights, qaux[k]) >= DistinctDests(flights, a)
    /\ AboveAverage(DegreesExample) = {4}

\* C10: hubs_above_average(top_n) returns the first top_n of the airports whose
\* distinct destinations strictly exceed the mean over the airports with a
\* flight out, more destinations first and among equals the smaller airport_id
\* first; parallel flights count once; of degrees 1, 1, 1, 10 only the 10.
C10_TopHubsInOrder ==
    (qop.op = "hubs_above_average" /\ qop.top_n >= 0) =>
       /\ qres.status = "ok"
       /\ HubsTopN
       /\ \A k, m \in 1..Len(qaux) : k < m => Before(qaux[k], qaux[m])
       /\ \A a \in Hubs : (\A k \in 1..Len(qaux) : qaux[k] # a) =>
             \A k \in 1..Len(qaux) : Before(qaux[k], a)

\* C11: for an origin (the one airport with the iata given),
\* two_hop_destinations returns one row for each airport at the end of a path
\* of two FLIGHT relationships from the origin, the origin left out, and no
\* other row: as many rows as there are such airports, also when two of them
\* have the same iata, city and country.
C11_OneRowPerDestination ==
    (qop.op = "two_hop_destinations" /\ Cardinality(AirportsWithIata(qop.from)) = 1) =>
       \A s \in AirportsWithIata(qop.from) :
          /\ {qres.rows[k] : k \in 1..Len(qres.rows)} = {TwoHopRow(n) : n \in Level(s, 2) \ {s}}
          /\ Len(qres.rows) = Cardinality(Level(s, 2) \ {s})

\* The records of a batch that can be applied: those with an airline_id.
Appliable(batch) == SelectSeq(batch, LAMBDA r : r.airline_id # NULLN)

\* C12: a batch of load_airlines with a record that cannot be applied (its
\* airline_id is null) does not abort the ingestion: the other records of the
\* batch are applied and the loop goes on to the next batch, from where the
\* loader reaches its next load step.
C12_BatchSurvivesBadRecord ==
    [][(pc = "loop" /\ fn = "load_airlines" /\ InRange /\ MergeFails(Batch)) =>
          /\ pc' = "loop" /\ i' = i + batch_size
          /\ airlineNodes' = RunAirlines(airlineNodes, Appliable(Batch))]_vars

\* What a load function called with the list on a fresh database leaves when
\* every record is applied once, in input order, as with batch_size = 1.
OneByOne(f, list) ==
    CASE f = "load_airports" -> <<RunAirports(<<>>, list), <<>>, <<>>>>
      [] f = "load_airlines" -> <<airportNodes, RunAirlines(<<>>, list), <<>>>>
      [] OTHER -> <<airportNodes, airlineNodes, RunRoutes(airportNodes, <<>>, list)>>

\* C13: whatever integer batch_size a load function of main() is given and
\* goes through with, when it returns the store is the one the records leave
\* applied one by one in input order.
C13_BatchSizeIrrelevant ==
    [][(pc = "loop" /\ pc' = "returned") =>
          <<airportNodes', airlineNodes', flights'>> = OneByOne(fn, rows)]_vars

\* C14: shortest_path from an airport to itself (the one airport with the iata
\* given) returns the path of no hops: hops 0, a route of that airport alone
\* and no carriers; never None, an error or a cycle.
C14_SelfPath ==
    (/\ qop.op = "shortest_path" /\ qop.from = qop.to
     /\ Cardinality(AirportsWithIata(qop.from)) = 1) =>
       /\ qres.status = "ok"
       /\ qres.hops = 0 /\ qres.route = <<qop.from>> /\ qres.carriers = <<>>

\* A FLIGHT relationship with an end that lacks a latitude or a longitude.
LacksCoordinate(k) ==
    NULLN \in {airportNodes[flights[k].src].latitude, airportNodes[flights[k].src].longitude,
               airportNodes[flights[k].dst].latitude, airportNodes[flights[k].dst].longitude}

\* After add_distance_property: the relationships with an end without a
\* coordinate have no distance, and running the pass again would change none.
DistancesSettled ==
    /\ \A k \in 1..Len(flights) : LacksCoordinate(k) => flights[k].distance = NULLN
    /\ SetDistances(flights) = flights

\* C15: after add_distance_property every FLIGHT relationship with an end
\* that lacks a coordinate has no distance, the number returned is the number
\* of relationships that have a distance, and a second run changes nothing.
C15_CountsEdgesWithDistance ==
    qop.op = "add_distance_property" =>
       /\ DistancesSettled
       /\ qres.updated = Cardinality({k \in 1..Len(flights) : flights[k].distance # NULLN})

====
